---- MODULE Spec2Model ----
(***************************************************************************)
(* The poll cog of src/cogs/poll.py: the registry Poll.active_polls, the   *)
(* slash command create_poll, the expiry timer end_poll_timer, the closure *)
(* end_poll and the vote button handler PollButton.callback, as coroutines *)
(* of one cooperative event loop.  Every action is the code that runs      *)
(* between two suspension points (await) of one coroutine; an adapter call *)
(* that is awaited either returns or raises.  Each voter has at most one   *)
(* callback in flight, and end_poll is called explicitly at most once per  *)
(* message identifier (besides the call made by the poll's timer).         *)
(***************************************************************************)
EXTENDS Integers, Sequences, FiniteSets, TLC

\* ------------------------------------------------------------------ bounds
\* Message identifiers the platform hands out are 1..MaxPolls.
MaxPolls == 2
\* At most MaxTasks coroutines are started in one run: a create_poll (and
\* the end_poll_timer task it creates when it accepts the request), a
\* PollButton.callback per button press, an explicit end_poll call.
MaxTasks == 5
\* Voters press the buttons of the option indices 0..MaxButton-1 only.
MaxButton == 3
\* Durations (minutes) offered to create_poll are 0..MaxDuration.
MaxDuration == 1
\* The polls whose rendering is examined have 2..MaxTallyOptions options.
MaxTallyOptions == 3

\* ------------------------------------------------------- program constants
MinOptions == 2
MaxOptions == 10

Voters == {"u1", "u2"}
Titles == {"Lunch?"}
Triggers == {"timer", "manual"}
\* The voters of the polls whose rendering is examined.
TallyVoters == {"u1", "u2", "u3"}

\* ------------------------------------------------- option string handling
\* A string is a sequence of one-character strings.

\* str.split(","): the pieces between the commas, empty pieces kept; the
\* empty string splits into one empty piece.
RECURSIVE Split(_)
Split(s) ==
    IF s = <<>> THEN << <<>> >>
    ELSE LET rest == Split(Tail(s))
         IN  IF Head(s) = ","
             THEN << <<>> >> \o rest
             ELSE << <<Head(s)>> \o Head(rest) >> \o Tail(rest)

\* str.strip(): leading and trailing blanks removed.
RECURSIVE Strip(_)
Strip(s) ==
    IF s = <<>> THEN s
    ELSE IF Head(s) = " " THEN Strip(Tail(s))
    ELSE IF s[Len(s)] = " " THEN Strip(SubSeq(s, 1, Len(s) - 1))
    ELSE s

\* option_list = [opt.strip() for opt in options.split(",")]
OptionList(options) ==
    LET pieces == Split(options)
    IN  [i \in 1..Len(pieces) |-> Strip(pieces[i])]

\* "a,a,...,a" with n options.
RECURSIVE Repeated(_)
Repeated(n) == IF n <= 1 THEN <<"a">> ELSE Repeated(n - 1) \o <<",", "a">>

\* The option strings offered to create_poll: "", "a", " a , b", "a, ",
\* and the lists of MaxOptions and MaxOptions + 1 options.
OptionStrings ==
    { <<>>,
      <<"a">>,
      <<" ", "a", " ", ",", " ", "b">>,
      <<"a", ",", " ">>,
      Repeated(MaxOptions),
      Repeated(MaxOptions + 1) }

\* ------------------------------------------------------------------- state
VARIABLES
    active_polls,   \* Poll.active_polls: message id -> poll_data
    nextId,         \* the next message identifier the platform assigns
    creating,       \* create_poll coroutines awaiting original_response():
                    \*   message id -> [data, duration]
    message,        \* the platform's copy of each published poll message
    timer,          \* end_poll_timer task per message id
    closer,         \* end_poll coroutine per message id and trigger
    sent,           \* results messages sent to the channel per message id
    handler,        \* PollButton.callback coroutine per voter
    rejected,       \* the rejection the latest create_poll answered with
    tasks,          \* coroutines started so far
    streak,         \* the current run of presses of one button by one voter
    embed           \* the embed last built by the rendering under TallySpec;
                    \* Spec keeps the kind of each displayed embed only
                    \* (message[m].embed)

vars == <<active_polls, nextId, creating, message, timer, closer, sent,
          handler, rejected, tasks, streak, embed>>

PollIds == 1..MaxPolls

Registered(m) == m \in DOMAIN active_polls

Without(f, m) == [k \in DOMAIN f \ {m} |-> f[k]]

HandlerIdle == [pc |-> "idle", m |-> 0, action |-> "none"]
CloserIdle == "idle"
NoTimer == [pc |-> "none", left |-> 0]
NoMessage == [buttons |-> 0, embed |-> "none", view |-> FALSE]
NoStreak == [m |-> 0, v |-> "none", a |-> 0, before |-> <<>>, n |-> 0]
NoEmbed == [kind |-> "none", fields |-> <<>>]

\* Poll.__init__: an empty registry; nothing published, no task running.
Init ==
    /\ active_polls = <<>>
    /\ nextId = 1
    /\ creating = <<>>
    /\ message = [m \in PollIds |-> NoMessage]
    /\ timer = [m \in PollIds |-> NoTimer]
    /\ closer = [m \in PollIds |-> [t \in Triggers |-> CloserIdle]]
    /\ sent = [m \in PollIds |-> 0]
    /\ handler = [v \in Voters |-> HandlerIdle]
    /\ rejected = "none"
    /\ tasks = 0
    /\ streak = NoStreak
    /\ embed = NoEmbed

\* ------------------------------------------------------------- create_poll
\* A validation whose lower limit is off by one.
ValidateOffByOne(option_list) ==
    IF Len(option_list) <= MinOptions THEN "At least 2 options required!"
    ELSE IF Len(option_list) > MaxOptions THEN "Maximum 10 options allowed!"
    ELSE "ok"

\* The verdict of the validation of the option list.
Validate(option_list) ==
    IF Len(option_list) < MinOptions THEN "At least 2 options required!"
    ELSE IF Len(option_list) > MaxOptions THEN "Maximum 10 options allowed!"
    ELSE "ok"

\* A poll_data with a vote set too many.
PollDataExtraKey(title, option_list, multiple) ==
    [title    |-> title,
     options  |-> option_list,
     votes    |-> [i \in 0..Len(option_list) |-> {}],
     multiple |-> multiple]

\* A poll_data whose first vote set already holds a voter.
PollDataPrefilled(title, option_list, multiple) ==
    [title    |-> title,
     options  |-> option_list,
     votes    |-> [i \in 0..(Len(option_list) - 1) |->
                     IF i = 0 THEN {"u1"} ELSE {}],
     multiple |-> multiple]

\* poll_data = {...}: one empty vote set per option index.  (author_id and
\* channel_id are never read back by the state machine; end_time is read by
\* the footer of the live embed only.)
PollData(title, option_list, multiple) ==
    [title    |-> title,
     options  |-> option_list,
     votes    |-> [i \in 0..(Len(option_list) - 1) |-> {}],
     multiple |-> multiple]

\* create_poll up to the end of its first await: the validation, and either
\* the rejection or the announcement published under a fresh identifier.
CreatePoll(title, options, duration, multiple) ==
    LET option_list == OptionList(options)
        verdict == Validate(option_list)
        started == IF verdict = "ok" THEN 2 ELSE 1
    IN  /\ tasks < MaxTasks
        /\ tasks + started <= MaxTasks
        /\ tasks' = tasks + started
        /\ UNCHANGED embed
        /\ IF verdict # "ok"
           THEN /\ rejected' = verdict
                /\ UNCHANGED <<active_polls, nextId, creating, message, timer,
                               closer, sent, handler, streak>>
           ELSE /\ nextId <= MaxPolls
                /\ creating' =
                     (nextId :> [data |-> PollData(title, option_list, multiple),
                                 duration |-> duration]) @@ creating
                /\ message' = [message EXCEPT ![nextId] =
                                 [buttons |-> Len(option_list),
                                  embed |-> "live", view |-> TRUE]]
                /\ nextId' = nextId + 1
                /\ rejected' = "none"
                /\ UNCHANGED <<active_polls, timer, closer, sent, handler,
                               streak>>

\* interaction.response.send_message(embed=..., view=...) raises: the
\* coroutine ends with nothing published and nothing stored.
CreateSendFails(options) ==
    /\ tasks < MaxTasks
    /\ Validate(OptionList(options)) = "ok"
    /\ tasks' = tasks + 1
    /\ rejected' = "none"
    /\ UNCHANGED <<active_polls, nextId, creating, message, timer, closer,
                   sent, handler, streak, embed>>

\* A timer that is never started.
TimerNeverStarted(duration) == [pc |-> "none", left |-> duration]

\* self.bot.loop.create_task(self.end_poll_timer(message.id, duration))
TimerTask(duration) == [pc |-> "sleep", left |-> duration]

\* original_response() returned: the poll is stored under message.id and
\* its timer task is created.
CreateStore(m) ==
    /\ m \in DOMAIN creating
    /\ active_polls' = (m :> creating[m].data) @@ active_polls
    /\ timer' = [timer EXCEPT ![m] = TimerTask(creating[m].duration)]
    /\ creating' = Without(creating, m)
    /\ UNCHANGED <<nextId, message, closer, sent, handler, rejected, tasks, streak, embed>>

\* original_response() raises: the announcement stays published and the
\* poll is never stored.
CreateFetchFails(m) ==
    /\ m \in DOMAIN creating
    /\ creating' = Without(creating, m)
    /\ UNCHANGED <<active_polls, nextId, message, timer, closer, sent,
                   handler, rejected, tasks, streak, embed>>

\* ---------------------------------------------------- PollButton.callback
\* Toggling without the single-choice clearing step.
ToggleVotesNoClear(votes, multiple, user_id, option_id) ==
    IF user_id \in votes[option_id]
    THEN [votes EXCEPT ![option_id] = @ \ {user_id}]
    ELSE [votes EXCEPT ![option_id] = @ \cup {user_id}]

\* Toggling that clears the voter's other votes in every poll.
ToggleVotesAlwaysClear(votes, multiple, user_id, option_id) ==
    IF user_id \in votes[option_id]
    THEN [votes EXCEPT ![option_id] = @ \ {user_id}]
    ELSE [i \in DOMAIN votes |->
            IF i = option_id THEN votes[i] \cup {user_id} ELSE votes[i] \ {user_id}]

\* Toggling that writes back a vote set computed from a stale, empty read.
ToggleVotesStaleRead(votes, multiple, user_id, option_id) ==
    IF user_id \in votes[option_id]
    THEN [votes EXCEPT ![option_id] = {}]
    ELSE [votes EXCEPT ![option_id] = {user_id}]

\* Toggling whose single-choice clearing step empties the other vote sets.
ToggleVotesClearsAll(votes, multiple, user_id, option_id) ==
    IF user_id \in votes[option_id]
    THEN [votes EXCEPT ![option_id] = @ \ {user_id}]
    ELSE IF multiple
    THEN [votes EXCEPT ![option_id] = @ \cup {user_id}]
    ELSE [i \in DOMAIN votes |->
            IF i = option_id THEN votes[i] \cup {user_id} ELSE {}]

\* Toggling that never retracts a vote.
ToggleVotesNoRemove(votes, multiple, user_id, option_id) ==
    IF user_id \in votes[option_id]
    THEN votes
    ELSE LET cleared == IF ~multiple
                        THEN [i \in DOMAIN votes |-> votes[i] \ {user_id}]
                        ELSE votes
         IN  [cleared EXCEPT ![option_id] = @ \cup {user_id}]

\* The vote sets after user_id pressed the button of option_id.
ToggleVotes(votes, multiple, user_id, option_id) ==
    IF user_id \in votes[option_id]
    THEN [votes EXCEPT ![option_id] = @ \ {user_id}]
    ELSE LET cleared == IF ~multiple
                        THEN [i \in DOMAIN votes |-> votes[i] \ {user_id}]
                        ELSE votes
         IN  [cleared EXCEPT ![option_id] = @ \cup {user_id}]

\* The action the voter is told.
ToggleAction(votes, user_id, option_id) ==
    IF user_id \in votes[option_id] THEN "Removed vote from" ELSE "Voted for"

\* The run of presses after voter v pressed button a of the open poll m.
StreakAfter(m, v, a) ==
    IF streak.n = 1 /\ streak.m = m /\ streak.v = v /\ streak.a = a
    THEN [streak EXCEPT !.n = 2]
    ELSE [m |-> m, v |-> v, a |-> a, before |-> active_polls[m].votes, n |-> 1]

\* The callback up to its first await: the lookup, and either the "already
\* ended" answer or the mutation of the vote sets.
Click(v, m, a) ==
    /\ handler[v].pc \in {"idle", "raised"}
    /\ tasks < MaxTasks
    /\ a < MaxButton
    /\ a < message[m].buttons
    /\ tasks' = tasks + 1
    /\ IF ~Registered(m)
       THEN /\ handler' = [handler EXCEPT ![v] =
                             [pc |-> "ended", m |-> m, action |-> "none"]]
            /\ UNCHANGED <<active_polls, streak>>
       ELSE LET poll_data == active_polls[m]
            IN  /\ active_polls' = [active_polls EXCEPT ![m].votes =
                        ToggleVotes(poll_data.votes, poll_data.multiple, v, a)]
                /\ handler' = [handler EXCEPT ![v] =
                        [pc |-> "edit", m |-> m,
                         action |-> ToggleAction(poll_data.votes, v, a)]]
                /\ streak' = StreakAfter(m, v, a)
    /\ UNCHANGED <<nextId, creating, message, timer, closer, sent, rejected, embed>>

\* "This poll has already ended!" was sent: the callback returns.
EndedSent(v) ==
    /\ handler[v].pc = "ended"
    /\ handler' = [handler EXCEPT ![v] = HandlerIdle]
    /\ UNCHANGED <<active_polls, nextId, creating, message, timer, closer,
                   sent, rejected, tasks, streak, embed>>

\* interaction.message.edit(embed=embed) returned, or raised: nothing
\* catches the exception, which ends the callback.
TallyEdit(v, ok) ==
    /\ handler[v].pc = "edit"
    /\ IF ok
       THEN /\ message' = [message EXCEPT ![handler[v].m].embed = "live"]
            /\ handler' = [handler EXCEPT ![v].pc = "ack"]
       ELSE /\ handler' = [handler EXCEPT ![v].pc = "raised"]
            /\ UNCHANGED message
    /\ UNCHANGED <<active_polls, nextId, creating, timer, closer, sent,
                   rejected, tasks, streak, embed>>

\* "You <action> option <n>!" was sent: the callback returns.
Ack(v) ==
    /\ handler[v].pc = "ack"
    /\ handler' = [handler EXCEPT ![v] = HandlerIdle]
    /\ UNCHANGED <<active_polls, nextId, creating, message, timer, closer,
                   sent, rejected, tasks, streak, embed>>

\* ---------------------------------------------------------------- end_poll
\* del self.active_polls[message_id]: KeyError when the entry is gone.
\* The closer's state and the registry after the statement.
DelPc(m) == IF Registered(m) THEN "done" ELSE "raised"

\* A del that leaves the entry in place.
DelPollsKeeps(m) == active_polls

\* A del that empties the registry.
DelPollsAll(m) == <<>>

DelPolls(m) == IF Registered(m) THEN Without(active_polls, m) ELSE active_polls

\* An except clause that returns instead of falling through to the del.
CaughtReturns(m) == active_polls

\* except Exception as e: print(...); execution falls through to the del.
\* The registry after it.
Caught(m) == DelPolls(m)

\* The run of presses ends when its poll leaves the registry.
StreakOnDel(m) == IF streak.m = m THEN NoStreak ELSE streak

\* end_poll up to its first await: the registry check, the results embed
\* and the channel lookup.  get_channel is synchronous: when it returns
\* None the AttributeError is caught and the entry deleted at once.
EndPoll(m, t, channel) ==
    IF ~Registered(m)
    THEN /\ closer' = [closer EXCEPT ![m][t] = "noop"]
         /\ UNCHANGED <<active_polls, streak>>
    ELSE IF channel
    THEN /\ closer' = [closer EXCEPT ![m][t] = "fetch"]
         /\ UNCHANGED <<active_polls, streak>>
    ELSE /\ closer' = [closer EXCEPT ![m][t] = DelPc(m)]
         /\ active_polls' = Caught(m)
         /\ streak' = StreakOnDel(m)

\* An explicit call of end_poll(message_id).
EndPollCall(m, channel) ==
    /\ m < nextId
    /\ closer[m]["manual"] = "idle"
    /\ tasks < MaxTasks
    /\ tasks' = tasks + 1
    /\ EndPoll(m, "manual", channel)
    /\ UNCHANGED <<nextId, creating, message, timer, sent, handler, rejected, embed>>

\* One minute of asyncio.sleep(duration * 60) elapses.
TimerTick(m) ==
    /\ timer[m].pc = "sleep"
    /\ timer[m].left > 0
    /\ timer' = [timer EXCEPT ![m].left = @ - 1]
    /\ UNCHANGED <<active_polls, nextId, creating, message, closer, sent,
                   handler, rejected, tasks, streak, embed>>

\* The sleep is over: end_poll is awaited when the poll is still registered.
TimerFire(m, channel) ==
    /\ timer[m].pc = "sleep"
    /\ timer[m].left = 0
    /\ timer' = [timer EXCEPT ![m].pc = "fired"]
    /\ IF Registered(m)
       THEN EndPoll(m, "timer", channel)
       ELSE UNCHANGED <<closer, active_polls, streak>>
    /\ UNCHANGED <<nextId, creating, message, sent, handler, rejected, tasks, embed>>

\* channel.fetch_message(message_id) returned or raised.
FetchDone(m, t, ok) ==
    /\ closer[m][t] = "fetch"
    /\ IF ok
       THEN /\ closer' = [closer EXCEPT ![m][t] = "edit"]
            /\ UNCHANGED <<active_polls, streak>>
       ELSE /\ closer' = [closer EXCEPT ![m][t] = DelPc(m)]
            /\ active_polls' = Caught(m)
            /\ streak' = StreakOnDel(m)
    /\ UNCHANGED <<nextId, creating, message, timer, sent, handler, rejected, tasks, embed>>

\* message.edit(embed=embed, view=None) returned or raised.
ResultsEdit(m, t, ok) ==
    /\ closer[m][t] = "edit"
    /\ IF ok
       THEN /\ closer' = [closer EXCEPT ![m][t] = "send"]
            /\ message' = [message EXCEPT ![m].embed = "results", ![m].view = FALSE]
            /\ UNCHANGED <<active_polls, streak>>
       ELSE /\ closer' = [closer EXCEPT ![m][t] = DelPc(m)]
            /\ active_polls' = Caught(m)
            /\ streak' = StreakOnDel(m)
            /\ UNCHANGED message
    /\ UNCHANGED <<nextId, creating, timer, sent, handler, rejected, tasks, embed>>

\* channel.send(embed=embed) returned or raised; then the entry is deleted.
ResultsSend(m, t, ok) ==
    /\ closer[m][t] = "send"
    /\ sent' = IF ok THEN [sent EXCEPT ![m] = @ + 1] ELSE sent
    /\ closer' = [closer EXCEPT ![m][t] = DelPc(m)]
    /\ active_polls' = IF ok THEN DelPolls(m) ELSE Caught(m)
    /\ streak' = StreakOnDel(m)
    /\ UNCHANGED <<nextId, creating, message, timer, handler, rejected, tasks, embed>>

\* --------------------------------------------------------------- rendering
\* sum(len(votes) for votes in poll_data["votes"].values())
RECURSIVE SumVotes(_, _)
SumVotes(votes, keys) ==
    IF keys = {} THEN 0
    ELSE LET k == CHOOSE k \in keys : TRUE
         IN  Cardinality(votes[k]) + SumVotes(votes, keys \ {k})

TotalVotes(poll_data) == SumVotes(poll_data.votes, DOMAIN poll_data.votes)

\* c * n: the string of n copies of c, empty when n <= 0.
Times(c, n) == [i \in 1..n |-> c]

\* percentage = (votes / total_votes * 100) if total_votes > 0 else 0, kept
\* as the exact fraction <<numerator, denominator>>.  (The float the code
\* computes gives the same int(percentage / 10) as the exact fraction for
\* every votes <= total_votes <= 3000.)
Percentage(votes, total_votes) ==
    IF total_votes > 0 THEN <<votes * 100, total_votes>> ELSE <<0, 1>>

\* A filled count that rounds to the nearest segment.
FilledRounded(percentage) ==
    (percentage[1] + 5 * percentage[2]) \div (percentage[2] * 10)

\* int(percentage / 10)
Filled(percentage) == percentage[1] \div (percentage[2] * 10)

\* bar = "#" * int(percentage / 10) + "-" * (10 - int(percentage / 10))
Bar(percentage) ==
    Times("#", Filled(percentage)) \o Times("-", 10 - Filled(percentage))

\* One field of an embed: the label of its name, the option it shows, and
\* the bar and the vote count of its value.  (The percentage text of the
\* value is left out.)
Field(label, i, option, bar, votes) ==
    [label |-> label, index |-> i, option |-> option, bar |-> bar,
     votes |-> votes]

\* create_poll_embed: one field per option in declared order.
CreatePollEmbed(poll_data) ==
    LET total_votes == TotalVotes(poll_data)
    IN  [kind |-> "live",
         fields |-> [k \in 1..Len(poll_data.options) |->
            LET votes == Cardinality(poll_data.votes[k - 1])
            IN  Field("plain", k - 1, poll_data.options[k],
                      Bar(Percentage(votes, total_votes)), votes)]]

\* option_results: (i, option, votes) per option in declared order.
OptionResults(poll_data) ==
    [k \in 1..Len(poll_data.options) |->
        <<k - 1, poll_data.options[k], Cardinality(poll_data.votes[k - 1])>>]

\* max(votes for _, _, votes in option_results)
MaxVotes(option_results) ==
    LET counts == {option_results[k][3] : k \in 1..Len(option_results)}
    IN  CHOOSE x \in counts : \A y \in counts : y <= x

\* A winners list that keeps the first of the tied options only.
WinnersFirstOnly(option_results) ==
    LET max_votes == MaxVotes(option_results)
        first == CHOOSE k \in 1..Len(option_results) :
                    /\ option_results[k][3] = max_votes
                    /\ \A j \in 1..(k - 1) : option_results[j][3] # max_votes
    IN  << option_results[first] >>

\* winners = [res for res in option_results if res[2] == max_votes]
Winners(option_results) ==
    LET max_votes == MaxVotes(option_results)
    IN  SelectSeq(option_results, LAMBDA res : res[3] = max_votes)

\* others = [res for res in option_results if res[2] != max_votes]
Others(option_results) ==
    LET max_votes == MaxVotes(option_results)
    IN  SelectSeq(option_results, LAMBDA res : res[3] # max_votes)

\* The results embed of end_poll: the winners, then the others, each with
\* its bar; without any vote every option as "0 votes (0.0%)" with no bar.
ResultsEmbed(poll_data) ==
    LET total_votes == TotalVotes(poll_data)
        option_results == OptionResults(poll_data)
        winners == Winners(option_results)
        others == Others(option_results)
        Shown(label, res) ==
            Field(label, res[1], res[2],
                  Bar(Percentage(res[3], total_votes)), res[3])
    IN  [kind |-> "results",
         fields |->
            IF total_votes > 0
            THEN [k \in 1..Len(winners) |-> Shown("winner", winners[k])]
                 \o [k \in 1..Len(others) |-> Shown("option", others[k])]
            ELSE [k \in 1..Len(option_results) |->
                    Field("option", option_results[k][1],
                          option_results[k][2], <<>>, 0)]]

\* The polls whose rendering is examined: 2..MaxTallyOptions options and
\* any votes of the TallyVoters that the toggle protocol can produce (in a
\* single-choice poll a voter holds at most one option).
TallyPolls ==
    { pd \in UNION { [title : Titles,
                      options : {OptionList(Repeated(n))},
                      votes : [0..(n - 1) -> SUBSET TallyVoters],
                      multiple : BOOLEAN] : n \in 2..MaxTallyOptions } :
        pd.multiple \/
            \A i, j \in DOMAIN pd.votes : i # j => pd.votes[i] \cap pd.votes[j] = {} }

\* One open poll, registered under the first identifier with its timer
\* asleep, holding any of these votes.
TallyInit ==
    /\ \E pd \in TallyPolls :
          /\ active_polls = (1 :> pd)
          /\ message = [m \in PollIds |->
                          IF m = 1
                          THEN [buttons |-> Len(pd.options), embed |-> "live",
                                view |-> TRUE]
                          ELSE NoMessage]
    /\ nextId = 2
    /\ creating = <<>>
    /\ timer = [m \in PollIds |-> IF m = 1 THEN TimerTask(0) ELSE NoTimer]
    /\ closer = [m \in PollIds |-> [t \in Triggers |-> CloserIdle]]
    /\ sent = [m \in PollIds |-> 0]
    /\ handler = [v \in Voters |-> HandlerIdle]
    /\ rejected = "none"
    /\ tasks = 2
    /\ streak = NoStreak
    /\ embed = NoEmbed

\* embed = poll_cog.create_poll_embed(poll_data) for the registered poll m.
BuildTally(m) ==
    /\ Registered(m)
    /\ embed' = CreatePollEmbed(active_polls[m])
    /\ UNCHANGED <<active_polls, nextId, creating, message, timer, closer,
                   sent, handler, rejected, tasks, streak>>

\* The results embed end_poll builds for the registered poll m.
BuildResults(m) ==
    /\ Registered(m)
    /\ embed' = ResultsEmbed(active_polls[m])
    /\ UNCHANGED <<active_polls, nextId, creating, message, timer, closer,
                   sent, handler, rejected, tasks, streak>>

TallyNext ==
    \/ \E m \in PollIds : BuildTally(m)
    \/ \E m \in PollIds : BuildResults(m)

TallySpec == TallyInit /\ [][TallyNext]_vars

\* ------------------------------------------------------------ the program
Next ==
    \/ \E title \in Titles, options \in OptionStrings,
          duration \in 0..MaxDuration, multiple \in BOOLEAN :
          CreatePoll(title, options, duration, multiple)
    \/ \E options \in OptionStrings : CreateSendFails(options)
    \/ \E m \in PollIds : CreateStore(m)
    \/ \E m \in PollIds : CreateFetchFails(m)
    \/ \E v \in Voters, m \in PollIds, a \in 0..(MaxOptions - 1) : Click(v, m, a)
    \/ \E v \in Voters : EndedSent(v)
    \/ \E v \in Voters, ok \in BOOLEAN : TallyEdit(v, ok)
    \/ \E v \in Voters : Ack(v)
    \/ \E m \in PollIds, channel \in BOOLEAN : EndPollCall(m, channel)
    \/ \E m \in PollIds : TimerTick(m)
    \/ \E m \in PollIds, channel \in BOOLEAN : TimerFire(m, channel)
    \/ \E m \in PollIds, t \in Triggers, ok \in BOOLEAN : FetchDone(m, t, ok)
    \/ \E m \in PollIds, t \in Triggers, ok \in BOOLEAN : ResultsEdit(m, t, ok)
    \/ \E m \in PollIds, t \in Triggers, ok \in BOOLEAN : ResultsSend(m, t, ok)

Spec == Init /\ [][Next]_vars

\* The event loop runs every ready coroutine: a sleep elapses, a timer
\* whose sleep is over fires, and every adapter call of a closure returns
\* or raises.
Fairness ==
    \A m \in PollIds :
        /\ WF_vars(TimerTick(m))
        /\ WF_vars(\E channel \in BOOLEAN : TimerFire(m, channel))
        /\ \A t \in Triggers :
              /\ WF_vars(\E ok \in BOOLEAN : FetchDone(m, t, ok))
              /\ WF_vars(\E ok \in BOOLEAN : ResultsEdit(m, t, ok))
              /\ WF_vars(\E ok \in BOOLEAN : ResultsSend(m, t, ok))

FairSpec == Spec /\ Fairness

\* ------------------------------------------------------------ properties
\* The option indices whose vote set holds voter v.
VotedOptions(votes, v) == {i \in DOMAIN votes : v \in votes[i]}

\* Some end_poll has executed its del on the entry of m.
Closed(m) == \E t \in Triggers : closer[m][t] = "done"

\* The number of options a comma-separated string splits into.
CommaCount(options) == Cardinality({i \in 1..Len(options) : options[i] = ","})

\* C1: in every registered single-choice poll every voter is in at most one
\* option's vote set.
C1_SingleChoiceExclusive ==
    \A m \in DOMAIN active_polls :
        ~active_polls[m].multiple =>
            \A v \in Voters :
                Cardinality(VotedOptions(active_polls[m].votes, v)) <= 1

\* A voter of a single-choice poll who held option 0, pressed option 1 and
\* now holds option 1 only.
C1_Witness ==
    \E m \in DOMAIN active_polls, v \in Voters :
        /\ ~active_polls[m].multiple
        /\ streak.m = m /\ streak.v = v /\ streak.a = 1 /\ streak.n = 1
        /\ v \in streak.before[0]
        /\ VotedOptions(active_polls[m].votes, v) = {1}

\* C2 as stated: after two consecutive presses of one button by one voter
\* the vote sets of the poll are those before the first press.
C2_DoubleToggleRestores ==
    (streak.n = 2 /\ Registered(streak.m)) =>
        active_polls[streak.m].votes = streak.before

\* The voter held, before the run, an option other than the pressed one.
HeldElsewhere == VotedOptions(streak.before, streak.v) \ {streak.a} # {}

\* C2 amended: two consecutive presses restore the vote sets when the poll
\* is multiple-choice or the voter held no other option before the first
\* press; in a single-choice poll whose voter held another option they
\* leave the voter with no vote and every other voter's votes as they were.
C2_DoubleToggleAmended ==
    (streak.n = 2 /\ Registered(streak.m)) =>
        active_polls[streak.m].votes =
            IF ~active_polls[streak.m].multiple /\ HeldElsewhere
            THEN [i \in DOMAIN streak.before |-> streak.before[i] \ {streak.v}]
            ELSE streak.before

\* Two consecutive presses happened on a poll that already held a vote.
C2_Witness ==
    /\ streak.n = 2
    /\ Registered(streak.m)
    /\ \E i \in DOMAIN streak.before : streak.before[i] # {}

\* C3: a request whose option string splits into n options publishes one
\* announcement and, once stored, registers exactly one new poll and starts
\* its timer when 2 <= n <= 10; otherwise it is rejected and neither the
\* registry, the announcements nor the tasks change.  Nothing else adds a
\* poll to the registry.
C3_CreateValidation ==
    [][ /\ (tasks' # tasks /\ handler' = handler /\ closer' = closer) =>
              \A title \in Titles, options \in OptionStrings,
                 duration \in 0..MaxDuration, multiple \in BOOLEAN :
                  CreatePoll(title, options, duration, multiple) =>
                      LET n == CommaCount(options) + 1
                      IN  IF 2 <= n /\ n <= 10
                          THEN /\ rejected' = "none"
                               /\ DOMAIN creating' = DOMAIN creating \cup {nextId}
                               /\ nextId \notin DOMAIN creating
                               /\ Len(creating'[nextId].data.options) = n
                               /\ message'[nextId].view
                               /\ active_polls' = active_polls
                          ELSE /\ rejected' # "none"
                               /\ UNCHANGED <<active_polls, creating, message,
                                              timer, closer, nextId>>
        /\ \A m \in PollIds :
              (Registered(m)' /\ ~Registered(m)) =>
                  /\ m \in DOMAIN creating
                  /\ DOMAIN active_polls' = DOMAIN active_polls \cup {m}
                  /\ \A k \in DOMAIN active_polls : active_polls'[k] = active_polls[k]
                  /\ Len(active_polls'[m].options) \in 2..10
                  /\ timer[m].pc = "none" /\ timer'[m].pc = "sleep"
                  /\ \A k \in PollIds \ {m} : timer'[k] = timer[k]
      ]_vars

\* A list of 10 options is registered and a request was rejected after it.
C3_Witness ==
    /\ rejected = "Maximum 10 options allowed!"
    /\ \E m \in DOMAIN active_polls :
          Len(active_polls[m].options) = 10 /\ timer[m].pc = "sleep"

\* C4 as stated: no poll with an option that is empty after trimming is
\* ever published or registered.
C4_NoEmptyOption ==
    /\ \A m \in DOMAIN active_polls :
          \A i \in 1..Len(active_polls[m].options) :
              active_polls[m].options[i] # <<>>
    /\ \A m \in DOMAIN creating :
          \A i \in 1..Len(creating[m].data.options) :
              creating[m].data.options[i] # <<>>

\* C5 as stated: the closure of a poll is carried out once: its results are
\* published at most once and no end_poll raises.
C5_ClosureOnce ==
    \A m \in PollIds :
        /\ sent[m] <= 1
        /\ \A t \in Triggers : closer[m][t] # "raised"

\* C6: once closure has removed a poll it is never registered again, and a
\* button press addressed to it is answered "already ended" and changes no
\* registry entry.
C6_ClosedStaysClosed ==
    /\ [](\A m \in PollIds : Closed(m) => ~Registered(m))
    /\ [][ \A m \in PollIds :
              Closed(m) =>
                  /\ ~Registered(m)'
                  /\ \A v \in Voters, a \in 0..(MaxOptions - 1) :
                        Click(v, m, a) =>
                            /\ handler'[v].pc = "ended"
                            /\ active_polls' = active_polls
         ]_vars

\* A press on a closed poll is being answered "already ended".
C6_Witness ==
    \E v \in Voters :
        /\ handler[v].pc = "ended"
        /\ handler[v].m \in PollIds
        /\ Closed(handler[v].m)

\* C7: an end_poll that got past its registry check leaves the poll out of
\* the registry when it ends, and every step in which one of its adapter
\* calls fails ends it at once with the poll removed.
C7_RemovedDespiteFailure ==
    /\ [](\A m \in PollIds, t \in Triggers :
            closer[m][t] \in {"done", "raised"} => ~Registered(m))
    /\ [][ \A m \in PollIds, t \in Triggers :
              ( \/ FetchDone(m, t, FALSE)
                \/ ResultsEdit(m, t, FALSE)
                \/ ResultsSend(m, t, FALSE)
                \/ EndPollCall(m, FALSE)
                \/ TimerFire(m, FALSE) )
              => ~Registered(m)'
         ]_vars

\* A closure ended with the poll removed although the poll message was
\* never edited: an adapter call failed before or at the edit.
C7_Witness ==
    \E m \in PollIds :
        /\ closer[m]["timer"] = "done"
        /\ closer[m]["manual"] = "idle"
        /\ message[m].embed = "live" /\ message[m].view
        /\ ~Registered(m)

\* C8: every poll entered into the registry is eventually removed from it.
C8_EventuallyRemoved ==
    \A m \in PollIds : Registered(m) ~> ~Registered(m)

\* The timer of a poll nobody voted in and nobody closed by hand fired and
\* its closure removed the poll.
C8_Witness ==
    \E m \in PollIds :
        /\ tasks = 2
        /\ timer[m].pc = "fired"
        /\ closer[m]["timer"] = "done"
        /\ ~Registered(m)

\* C9: in a multiple-choice poll a press by voter v on option a flips the
\* membership of v in the vote set of a and changes no other membership.
C9_MultipleIndependent ==
    [][ \A v \in Voters, m \in PollIds, a \in 0..(MaxOptions - 1) :
           (Click(v, m, a) /\ Registered(m) /\ active_polls[m].multiple) =>
               /\ Registered(m)'
               /\ (v \in active_polls'[m].votes[a]) <=> (v \notin active_polls[m].votes[a])
               /\ \A b \in DOMAIN active_polls[m].votes, w \in Voters :
                     (b # a \/ w # v) =>
                         ((w \in active_polls'[m].votes[b])
                             <=> (w \in active_polls[m].votes[b]))
      ]_vars

\* A voter holds options 0 and 1 of a multiple-choice poll after having
\* pressed option 2 as well.
C9_Witness ==
    \E m \in DOMAIN active_polls, v \in Voters :
        /\ active_polls[m].multiple
        /\ streak.m = m /\ streak.v = v /\ streak.a = 2
        /\ VotedOptions(streak.before, v) = {0, 1}
        /\ VotedOptions(active_polls[m].votes, v) = {0, 1, 2}

\* C10 as stated: when the display edit of a press fails the vote stays
\* recorded and the voter is still sent the acknowledgement.
C10_EditFailureNonFatal ==
    [][ \A v \in Voters :
           TallyEdit(v, FALSE) =>
               /\ active_polls' = active_polls
               /\ handler'[v].pc = "ack"
      ]_vars

\* The number of (option, voter) pairs the vote sets hold.
PairCount(votes) ==
    Cardinality({p \in (DOMAIN votes) \X (UNION {votes[i] : i \in DOMAIN votes}) :
                    p[2] \in votes[p[1]]})

\* The number of filled segments of a bar.
FilledSegments(bar) == Cardinality({j \in 1..Len(bar) : bar[j] = "#"})

\* C11: the results embed of a poll shows every option exactly once with
\* its vote count; when some vote was cast, the fields labelled winner are
\* exactly the options whose count no other count exceeds, they come before
\* all other fields, and each group is in declared order; when no vote was
\* cast, no field is labelled winner and every field shows 0 votes.
C11_WinnersPartition ==
    \A m \in DOMAIN active_polls :
        embed.kind = "results" =>
            LET pd == active_polls[m]
                n == Len(pd.options)
                f == embed.fields
                count(i) == Cardinality(pd.votes[i])
                IsTop(i) == \A j \in 0..(n - 1) : count(j) <= count(i)
            IN  /\ Len(f) = n
                /\ \A i \in 0..(n - 1) :
                      Cardinality({k \in 1..Len(f) : f[k].index = i}) = 1
                /\ \A k \in 1..Len(f) :
                      /\ f[k].index \in 0..(n - 1)
                      /\ f[k].option = pd.options[f[k].index + 1]
                      /\ f[k].label \in {"winner", "option"}
                /\ IF PairCount(pd.votes) > 0
                   THEN /\ \A k \in 1..Len(f) :
                              /\ f[k].label = "winner" <=> IsTop(f[k].index)
                              /\ f[k].votes = count(f[k].index)
                        /\ \A j, k \in 1..Len(f) :
                              j < k =>
                                  /\ f[k].label = "winner" => f[j].label = "winner"
                                  /\ f[j].label = f[k].label => f[j].index < f[k].index
                   ELSE \A k \in 1..Len(f) :
                              /\ f[k].label = "option"
                              /\ f[k].index = k - 1
                              /\ f[k].votes = 0

\* The results of the votes [2, 2, 0]: two winners, then the third option.
C11_Witness ==
    /\ embed.kind = "results"
    /\ \E m \in DOMAIN active_polls :
          /\ Len(active_polls[m].options) = 3
          /\ Cardinality(active_polls[m].votes[0]) = 2
          /\ Cardinality(active_polls[m].votes[1]) = 2
          /\ active_polls[m].votes[2] = {}
    /\ Len(embed.fields) = 3
    /\ embed.fields[1].label = "winner" /\ embed.fields[1].index = 0
    /\ embed.fields[2].label = "winner" /\ embed.fields[2].index = 1
    /\ embed.fields[3].label = "option" /\ embed.fields[3].index = 2

\* C12: in the live tally of a poll, and in its results when some vote was
\* cast, the bar of an option with v of the t votes has 10 segments, each
\* filled or empty, of which floor(10 * v / t) are filled when t > 0 and
\* none when t = 0.
C12_BarSegments ==
    \A m \in DOMAIN active_polls :
        LET pd == active_polls[m]
            t == PairCount(pd.votes)
        IN  (embed.kind = "live" \/ (embed.kind = "results" /\ t > 0)) =>
                \A k \in 1..Len(embed.fields) :
                    LET bar == embed.fields[k].bar
                        v == Cardinality(pd.votes[embed.fields[k].index])
                    IN  /\ Len(bar) = 10
                        /\ \A j \in 1..Len(bar) : bar[j] \in {"#", "-"}
                        /\ FilledSegments(bar) \in 0..10
                        /\ FilledSegments(bar) =
                              IF t > 0 THEN (10 * v) \div t ELSE 0

\* The live tally of the votes [3, 1]: 7 filled and 3 empty segments, then
\* 2 filled and 8 empty.
C12_Witness ==
    /\ embed.kind = "live"
    /\ \E m \in DOMAIN active_polls :
          /\ Len(active_polls[m].options) = 2
          /\ Cardinality(active_polls[m].votes[0]) = 3
          /\ Cardinality(active_polls[m].votes[1]) = 1
    /\ Len(embed.fields) = 2
    /\ embed.fields[1].bar = Times("#", 7) \o Times("-", 3)
    /\ embed.fields[2].bar = Times("#", 2) \o Times("-", 8)

\* C13: a published poll that create_poll has not stored yet is not in the
\* registry and holds no vote; a button press addressed to it mutates no
\* vote set and is accepted as no vote; and a poll enters the registry with
\* every vote set empty.
C13_NoVoteBeforeRegistration ==
    /\ [](\A m \in DOMAIN creating :
            /\ ~Registered(m)
            /\ \A i \in DOMAIN creating[m].data.votes :
                  creating[m].data.votes[i] = {})
    /\ [][ /\ \A m \in PollIds :
                (~Registered(m) /\ Registered(m)') =>
                    \A i \in DOMAIN active_polls'[m].votes :
                        active_polls'[m].votes[i] = {}
           /\ \A v \in Voters, m \in DOMAIN creating, a \in 0..(MaxOptions - 1) :
                Click(v, m, a) =>
                    /\ active_polls' = active_polls
                    /\ creating' = creating
                    /\ handler'[v].pc = "ended"
                    /\ handler'[v].action = "none"
         ]_vars

\* A press was refused while its poll was published and not yet stored, and
\* the poll has since entered the registry, open and without any vote.
C13_Witness ==
    \E v \in Voters :
        /\ handler[v].pc = "ended"
        /\ handler[v].m \in DOMAIN active_polls
        /\ \A i \in DOMAIN active_polls[handler[v].m].votes :
              active_polls[handler[v].m].votes[i] = {}
        /\ timer[handler[v].m].pc = "sleep"

\* The vote sets one toggle of option a by voter v yields, taken alone.
SequentialToggle(votes, multiple, v, a) ==
    [i \in DOMAIN votes |->
        IF v \in votes[a]
        THEN IF i = a THEN votes[i] \ {v} ELSE votes[i]
        ELSE IF i = a THEN votes[i] \cup {v}
        ELSE IF multiple THEN votes[i]
        ELSE votes[i] \ {v}]

\* C14: every step that changes the vote sets of a registered poll is the
\* whole toggle of one voter's callback, applied to the vote sets as the
\* step found them, whatever the other callbacks in flight are waiting for;
\* and no step in which a callback resumes from an await changes a vote
\* set.  The vote sets are therefore always those of the accepted presses
\* applied one at a time in the order of these steps.
C14_TogglesSerialized ==
    [][ /\ \A m \in DOMAIN active_polls :
              (m \in DOMAIN active_polls' /\ active_polls'[m] # active_polls[m]) =>
                  \E v \in Voters, a \in DOMAIN active_polls[m].votes :
                      /\ handler[v].pc \in {"idle", "raised"}
                      /\ handler'[v].pc = "edit" /\ handler'[v].m = m
                      /\ \A w \in Voters \ {v} : handler'[w] = handler[w]
                      /\ active_polls'[m].votes =
                            SequentialToggle(active_polls[m].votes,
                                             active_polls[m].multiple, v, a)
        /\ \A v \in Voters :
              (handler[v].pc \in {"edit", "ack", "ended"} /\ handler'[v] # handler[v])
                  => active_polls' = active_polls
      ]_vars

\* Two callbacks on one poll are both suspended on their display edit, and
\* the poll holds the votes of both.
C14_Witness ==
    \E m \in DOMAIN active_polls :
        /\ \A v \in Voters : handler[v].pc = "edit" /\ handler[v].m = m
        /\ \A v \in Voters : VotedOptions(active_polls[m].votes, v) # {}

\* C15: every registered poll has between 2 and 10 options and one vote
\* set per option index 0..n-1, empty when the poll enters the registry;
\* and while a poll stays registered no step changes its title, its option
\* list, its multiple flag or the keys of its votes mapping, which are
\* those create_poll was called with.
C15_RegistryShape ==
    /\ [](\A m \in DOMAIN active_polls :
            LET n == Len(active_polls[m].options)
            IN  /\ 2 <= n /\ n <= 10
                /\ DOMAIN active_polls[m].votes = 0..(n - 1)
                /\ message[m].buttons = n)
    /\ [][ \A m \in PollIds :
              /\ (~Registered(m) /\ Registered(m)') =>
                    /\ m \in DOMAIN creating
                    /\ active_polls'[m].title = creating[m].data.title
                    /\ active_polls'[m].options = creating[m].data.options
                    /\ active_polls'[m].multiple = creating[m].data.multiple
                    /\ \A i \in DOMAIN active_polls'[m].votes :
                          active_polls'[m].votes[i] = {}
              /\ (Registered(m) /\ Registered(m)') =>
                    /\ active_polls'[m].title = active_polls[m].title
                    /\ active_polls'[m].options = active_polls[m].options
                    /\ active_polls'[m].multiple = active_polls[m].multiple
                    /\ DOMAIN active_polls'[m].votes = DOMAIN active_polls[m].votes
         ]_vars

\* A poll of 10 options holds a vote while its closure is suspended.
C15_Witness ==
    \E m \in DOMAIN active_polls :
        /\ Len(active_polls[m].options) = 10
        /\ \E i \in DOMAIN active_polls[m].votes : active_polls[m].votes[i] # {}
        /\ \E t \in Triggers : closer[m][t] \in {"fetch", "edit", "send"}

\* An end_poll of the poll m has built its results embed and is suspended
\* on fetching, editing or sending the message.
TallyComputed(m) == \E t \in Triggers : closer[m][t] \in {"fetch", "edit", "send"}

\* C16 as stated: no press on a poll is accepted once an end_poll of the
\* poll has computed the results tally: such a press mutates no vote set
\* and its voter is told neither "Voted for" nor "Removed vote from".
C16_NoToggleAfterTally ==
    [][ \A v \in Voters, m \in PollIds, a \in 0..(MaxOptions - 1) :
           (TallyComputed(m) /\ Click(v, m, a)) =>
               /\ active_polls' = active_polls
               /\ handler'[v].action = "none"
      ]_vars

\* An end_poll of the poll m has issued its results edit, or has seen it
\* return.
ResultsEditIssued(m) == \E t \in Triggers : closer[m][t] \in {"edit", "send"}

\* C17 as stated: a poll message that closure has turned into the static
\* results view shows the results for good, and no callback issues its
\* tally edit of a poll message once an end_poll has issued the results
\* edit of that message.
C17_ResultsNeverOverwritten ==
    /\ [](\A m \in PollIds :
            (message[m].buttons > 0 /\ ~message[m].view) =>
                message[m].embed = "results")
    /\ [][ \A v \in Voters, m \in PollIds, a \in 0..(MaxOptions - 1) :
              (ResultsEditIssued(m) /\ Click(v, m, a)) => handler'[v].pc # "edit"
         ]_vars

\* The step is a step of the poll m alone: a press on m or the display edit
\* that follows it, or a step of the timer or of an end_poll of m.
StepOf(m) ==
    \/ \E v \in Voters, a \in 0..(MaxOptions - 1) : Click(v, m, a)
    \/ \E v \in Voters, ok \in BOOLEAN : handler[v].m = m /\ TallyEdit(v, ok)
    \/ \E channel \in BOOLEAN : EndPollCall(m, channel) \/ TimerFire(m, channel)
    \/ TimerTick(m)
    \/ \E t \in Triggers, ok \in BOOLEAN :
          FetchDone(m, t, ok) \/ ResultsEdit(m, t, ok) \/ ResultsSend(m, t, ok)

\* C18: a press on the poll m, a step of the timer of m and a step of a
\* closure of m leave every other poll as it was: whether it is registered,
\* its registry entry with its vote sets, its timer, its closures and its
\* message.
C18_OtherPollsUntouched ==
    [][ \A m \in PollIds :
           StepOf(m) =>
               \A k \in PollIds \ {m} :
                   /\ Registered(k)' <=> Registered(k)
                   /\ Registered(k) => active_polls'[k] = active_polls[k]
                   /\ timer'[k] = timer[k]
                   /\ closer'[k] = closer[k]
                   /\ message'[k] = message[k]
                   /\ sent'[k] = sent[k]
      ]_vars

\* Of two open polls one was voted in and then closed by its timer; the
\* other is still registered with its vote and its timer asleep.
C18_Witness ==
    \E m, k \in PollIds :
        /\ m # k
        /\ closer[m]["timer"] = "done" /\ ~Registered(m)
        /\ Registered(k) /\ timer[k].pc = "sleep"
        /\ \E i \in DOMAIN active_polls[k].votes : active_polls[k].votes[i] # {}
        /\ closer[k] = [t \in Triggers |-> CloserIdle]

\* C19: a press by voter v that is accepted on a registered poll leaves the
\* membership of every other voter in every vote set of the poll as it
\* was, in single-choice and multiple-choice polls alike.
C19_OnlyOwnMemberships ==
    [][ \A v \in Voters, m \in PollIds, a \in 0..(MaxOptions - 1) :
           (Registered(m) /\ Click(v, m, a)) =>
               /\ Registered(m)'
               /\ \A w \in Voters \ {v}, i \in DOMAIN active_polls[m].votes :
                     (w \in active_polls'[m].votes[i])
                         <=> (w \in active_polls[m].votes[i])
      ]_vars

\* In a single-choice poll two voters held option 0; one of them pressed
\* option 1 and moved there, the other still holds option 0.
C19_Witness ==
    \E m \in DOMAIN active_polls, v, w \in Voters :
        /\ v # w
        /\ ~active_polls[m].multiple
        /\ streak.m = m /\ streak.v = v /\ streak.a = 1 /\ streak.n = 1
        /\ streak.before[0] = {v, w}
        /\ active_polls[m].votes[0] = {w}
        /\ active_polls[m].votes[1] = {v}
====
